---- MODULE Spec2Model ----
(***************************************************************************)
(* Model of the YouTube lead-list actor (src/main_Version2.js): the retry  *)
(* wrapper youtubeApiRequest, the four API client operations, candidate    *)
(* collection, per-candidate evaluation with its filter chain, and the     *)
(* result sink.  Strings are sequences of one-character strings.           *)
(***************************************************************************)
EXTENDS Integers, Sequences, FiniteSets, TLC

\* ------------------------------------------------------------------ bounds
\* largest maxChannels drawn for the run
MaxMaxChannels == 2
\* largest sampleSize / page limit drawn
MaxLimit == 2
\* largest number of items the remote API puts in one response
MaxItems == 2

\* ------------------------------------------------------- program constants
maxRetries == 3
chunkSize == 50
ShortSeconds == 60
BackoffBaseMs == 1000
\* "today" as a day number, the clock read by Date.now()
Now == 200

\* JS undefined / null for an optional string: a sequence that is no string
None == <<"undefined">>
\* JS NaN and null for an optional number (real counts are never negative)
NaN == 0 - 1
Null == 0 - 2

\* ---------------------------------------------------------- string helpers
UpperChars == <<"A","B","C","D","E","F","G","H","I","J","K","L","M",
                "N","O","P","Q","R","S","T","U","V","W","X","Y","Z">>
LowerChars == <<"a","b","c","d","e","f","g","h","i","j","k","l","m",
                "n","o","p","q","r","s","t","u","v","w","x","y","z">>
DigitChars == <<"0","1","2","3","4","5","6","7","8","9">>

Range(s) == {s[i] : i \in 1..Len(s)}

LowerChar(c) ==
    IF \E i \in 1..26 : UpperChars[i] = c
    THEN LowerChars[CHOOSE i \in 1..26 : UpperChars[i] = c]
    ELSE c

\* String.prototype.toLowerCase
toLowerCase(s) == [i \in 1..Len(s) |-> LowerChar(s[i])]

\* String.prototype.includes
includes(t, k) ==
    \E i \in 0..(Len(t) - Len(k)) : SubSeq(t, i + 1, i + Len(k)) = k

\* String.prototype.trim (blanks only)
RECURSIVE trimLeft(_)
trimLeft(s) == IF s # <<>> /\ Head(s) = " " THEN trimLeft(Tail(s)) ELSE s
RECURSIVE trimRight(_)
trimRight(s) ==
    IF s # <<>> /\ s[Len(s)] = " " THEN trimRight(SubSeq(s, 1, Len(s) - 1)) ELSE s
trim(s) == trimRight(trimLeft(s))

\* Array.prototype.join(' ')
RECURSIVE joinSpace(_)
joinSpace(parts) ==
    IF parts = <<>> THEN <<>>
    ELSE IF Len(parts) = 1 THEN parts[1]
    ELSE parts[1] \o <<" ">> \o joinSpace(Tail(parts))

\* String.prototype.split('/').filter(Boolean)
RECURSIVE splitSlash(_, _)
splitSlash(s, cur) ==
    IF s = <<>> THEN (IF cur = <<>> THEN <<>> ELSE <<cur>>)
    ELSE IF Head(s) = "/"
         THEN (IF cur = <<>> THEN <<>> ELSE <<cur>>) \o splitSlash(Tail(s), <<>>)
         ELSE splitSlash(Tail(s), Append(cur, Head(s)))

IsDigit(c) == \E i \in 1..10 : DigitChars[i] = c
DigitVal(c) == (CHOOSE i \in 1..10 : DigitChars[i] = c) - 1

\* parseInt(s, 10) of a string: leading digits, NaN when there are none
RECURSIVE parseDigits(_, _)
parseDigits(s, acc) ==
    IF s = <<>> \/ ~IsDigit(Head(s)) THEN acc
    ELSE parseDigits(Tail(s), acc * 10 + DigitVal(Head(s)))
parseInt(s) == IF s = <<>> \/ ~IsDigit(Head(s)) THEN NaN ELSE parseDigits(s, 0)

\* first position at or after p that is not a digit
RECURSIVE digitsEnd(_, _)
digitsEnd(s, p) == IF p <= Len(s) /\ IsDigit(s[p]) THEN digitsEnd(s, p + 1) ELSE p

\* one optional group (?:(\d+)X)? of the duration pattern, tried at position p
durationGroup(s, p, unit) ==
    LET q == digitsEnd(s, p) IN
    IF q > p /\ q <= Len(s) /\ s[q] = unit
    THEN [val |-> parseDigits(SubSeq(s, p, q - 1), 0), next |-> q + 1]
    ELSE [val |-> 0, next |-> p]

\* isoDurationToSeconds: /PT(?:(\d+)H)?(?:(\d+)M)?(?:(\d+)S)?/ , unanchored
isoDurationToSeconds(iso) ==
    IF iso = None \/ iso = <<>> THEN 0
    ELSE IF ~includes(iso, <<"P","T">>) THEN 0
    ELSE LET st == CHOOSE i \in 1..Len(iso) :
                      /\ SubSeq(iso, i, i + 1) = <<"P","T">>
                      /\ \A j \in 1..(i - 1) : SubSeq(iso, j, j + 1) # <<"P","T">>
             h == durationGroup(iso, st + 2, "H")
             m == durationGroup(iso, h.next, "M")
             s == durationGroup(iso, m.next, "S")
         IN h.val * 3600 + m.val * 60 + s.val

\* x || '' for an optional string
OrEmpty(x) == IF x = None THEN <<>> ELSE x

\* JS truthiness of an optional string: undefined and '' are falsy
Truthy(x) == x # None /\ x # <<>>

\* a < b on JS numbers: false as soon as one side is NaN
NumLt(a, b) == a # NaN /\ b # NaN /\ a < b
NumGt(a, b) == a # NaN /\ b # NaN /\ a > b

\* --------------------------------------------------- identifier normaliser
IdChars == Range(UpperChars) \cup Range(LowerChars) \cup Range(DigitChars) \cup {"_", "-"}

\* /^UC[A-Za-z0-9_-]{20,}$/.test(s)
IsChannelId(s) ==
    /\ Len(s) >= 22
    /\ s[1] = "U" /\ s[2] = "C"
    /\ \A i \in 3..Len(s) : s[i] \in IdChars

HttpsPrefix == <<"h","t","t","p","s",":","/","/">>

\* new URL(s).pathname for the https URLs of the model; None when URL() throws
urlPathname(s) ==
    IF Len(s) > Len(HttpsPrefix) /\ SubSeq(s, 1, Len(HttpsPrefix)) = HttpsPrefix
    THEN LET rest == SubSeq(s, Len(HttpsPrefix) + 1, Len(s)) IN
         IF Head(rest) = "/" \/ " " \in Range(rest) THEN None
         ELSE IF "/" \in Range(rest)
              THEN LET k == CHOOSE i \in 1..Len(rest) :
                                rest[i] = "/" /\ \A j \in 1..(i - 1) : rest[j] # "/"
                   IN SubSeq(rest, k, Len(rest))
              ELSE <<"/">>
    ELSE None

\* normalizeChannelIdOrUrl
normalizeChannelIdOrUrl(item) ==
    IF ~Truthy(item) THEN None
    ELSE LET s == trim(item) IN
         IF IsChannelId(s) THEN s
         ELSE LET path == urlPathname(s) IN
              IF path = None THEN s
              ELSE LET parts == splitSlash(path, <<>>) IN
                   IF Len(parts) >= 2 /\ parts[1] = <<"c","h","a","n","n","e","l">>
                   THEN parts[2]
                   ELSE s

\* ------------------------------------------------------- keyword matching
\* faulty variant: an empty keyword is not passed over
anyKeywordIn_EmptyMatches(text, keywords) ==
    \E i \in 1..Len(keywords) : includes(text, toLowerCase(keywords[i]))

\* faulty variant: the keyword is compared as written, not lower-cased
anyKeywordIn_CaseSensitive(text, keywords) ==
    \E i \in 1..Len(keywords) :
        /\ Truthy(keywords[i])
        /\ includes(text, keywords[i])

\* the loop of lines 389-395 / 406-412: some non-empty keyword occurs in text
anyKeywordIn(text, keywords) ==
    \E i \in 1..Len(keywords) :
        /\ Truthy(keywords[i])
        /\ includes(text, toLowerCase(keywords[i]))

\* ------------------------------------------------------ channel snapshot
\* A channels.list item is modelled by the fields the actor reads:
\*   [title, description, country, subscriberCount, uploads : optional string,
\*    hiddenSubscriberCount : BOOLEAN]
subscriberCountOf(ch) ==
    IF ch.hiddenSubscriberCount THEN Null
    ELSE IF Truthy(ch.subscriberCount) THEN parseInt(ch.subscriberCount)
    ELSE Null

\* faulty variant: the subscriber check is made before the country check
channelFilter_SubscribersFirst(cfg, ch) ==
    LET channelCountry == OrEmpty(ch.country)
        subscriberCount == subscriberCountOf(ch)
    IN
    IF subscriberCount # Null /\ NumLt(subscriberCount, cfg.minSubscribers)
    THEN "subscribers_low"
    ELSE IF subscriberCount = Null /\ cfg.minSubscribers > 0
    THEN "subscribers_hidden"
    ELSE IF Truthy(cfg.country) /\ Truthy(channelCountry)
       /\ ~includes(toLowerCase(channelCountry), toLowerCase(cfg.country))
    THEN "country_mismatch"
    ELSE IF Truthy(cfg.country) /\ ~Truthy(channelCountry)
    THEN "country_missing"
    ELSE IF ~Truthy(ch.uploads)
    THEN "no_uploads"
    ELSE "pass"

\* faulty variant: a hidden subscriber count is let through whatever minSubscribers is
channelFilter_HiddenPasses(cfg, ch) ==
    LET channelCountry == OrEmpty(ch.country)
        subscriberCount == subscriberCountOf(ch)
    IN
    IF Truthy(cfg.country) /\ Truthy(channelCountry)
       /\ ~includes(toLowerCase(channelCountry), toLowerCase(cfg.country))
    THEN "country_mismatch"
    ELSE IF Truthy(cfg.country) /\ ~Truthy(channelCountry)
    THEN "country_missing"
    ELSE IF subscriberCount # Null /\ NumLt(subscriberCount, cfg.minSubscribers)
    THEN "subscribers_low"
    ELSE IF ~Truthy(ch.uploads)
    THEN "no_uploads"
    ELSE "pass"

\* the checks made before any video is fetched (lines 295-324)
channelFilter(cfg, ch) ==
    LET channelCountry == OrEmpty(ch.country)
        subscriberCount == subscriberCountOf(ch)
    IN
    IF Truthy(cfg.country) /\ Truthy(channelCountry)
       /\ ~includes(toLowerCase(channelCountry), toLowerCase(cfg.country))
    THEN "country_mismatch"
    ELSE IF Truthy(cfg.country) /\ ~Truthy(channelCountry)
    THEN "country_missing"
    ELSE IF subscriberCount # Null /\ NumLt(subscriberCount, cfg.minSubscribers)
    THEN "subscribers_low"
    ELSE IF subscriberCount = Null /\ cfg.minSubscribers > 0
    THEN "subscribers_hidden"
    ELSE IF ~Truthy(ch.uploads)
    THEN "no_uploads"
    ELSE "pass"

\* ---------------------------------------------------------- video sample
\* A videos.list item is modelled by
\*   [id : string, snippet : BOOLEAN (the snippet object is there),
\*    title : string, description, viewCount, duration : optional string,
\*    publishedAt : day number]

\* Array.prototype.sort with (a, b) => date(b) - date(a): stable, newest first
RECURSIVE insertByDate(_, _)
insertByDate(sorted, v) ==
    IF sorted = <<>> THEN <<v>>
    ELSE IF v.publishedAt > Head(sorted).publishedAt
         THEN <<v>> \o sorted
         ELSE <<Head(sorted)>> \o insertByDate(Tail(sorted), v)
RECURSIVE sortByDateDesc(_)
sortByDateDesc(vs) ==
    IF vs = <<>> THEN <<>>
    ELSE insertByDate(sortByDateDesc(SubSeq(vs, 1, Len(vs) - 1)), vs[Len(vs)])

\* Array.prototype.slice(0, n)
sliceTo(seq, n) == SubSeq(seq, 1, IF n < Len(seq) THEN (IF n < 0 THEN 0 ELSE n) ELSE Len(seq))

\* viewCounts entry (lines 345-348)
viewCountOf(v) ==
    LET vc == IF Truthy(v.viewCount) THEN parseInt(v.viewCount) ELSE 0
    IN IF vc = NaN THEN 0 ELSE vc

RECURSIVE sumSeq(_)
sumSeq(ns) == IF ns = <<>> THEN 0 ELSE Head(ns) + sumSeq(Tail(ns))

\* faulty variant: the mean is cut to an integer instead of rounded
avgViewsOf_Truncated(sample) ==
    LET viewCounts == [i \in 1..Len(sample) |-> viewCountOf(sample[i])]
    IN IF Len(viewCounts) > 0
       THEN sumSeq(viewCounts) \div Len(viewCounts)
       ELSE 0

\* Math.round(sum / n) for a non-negative sum (line 349)
avgViewsOf(sample) ==
    LET viewCounts == [i \in 1..Len(sample) |-> viewCountOf(sample[i])]
    IN IF Len(viewCounts) > 0
       THEN (2 * sumSeq(viewCounts) + Len(viewCounts)) \div (2 * Len(viewCounts))
       ELSE 0

\* faulty variant: every sample video has to be recent
RECURSIVE someRecent_Every(_, _)
someRecent_Every(sample, thresholdDate) ==
    IF sample = <<>> THEN "true"
    ELSE IF ~Head(sample).snippet THEN "throw"
    ELSE IF Head(sample).publishedAt < thresholdDate THEN "false"
    ELSE someRecent_Every(Tail(sample), thresholdDate)

\* sampleVideos.some(v => new Date(v.snippet.publishedAt) >= thresholdDate):
\* "true", "false", or "throw" when a video without snippet is reached first
RECURSIVE someRecent(_, _)
someRecent(sample, thresholdDate) ==
    IF sample = <<>> THEN "false"
    ELSE IF ~Head(sample).snippet THEN "throw"
    ELSE IF Head(sample).publishedAt >= thresholdDate THEN "true"
    ELSE someRecent(Tail(sample), thresholdDate)

\* hasRecentWithin (lines 352-356)
hasRecentWithinOf(cfg, sample) ==
    IF cfg.recentVideoWithinDays > 0
    THEN someRecent(sample, Now - cfg.recentVideoWithinDays)
    ELSE "true"

durationSecondsOf(v) == IF Truthy(v.duration) THEN isoDurationToSeconds(v.duration) ELSE 0

\* faulty variant: the title is matched without lower-casing it
shortFlag_CaseSensitive(v) ==
    LET dur == durationSecondsOf(v)
        title == IF v.snippet /\ Truthy(v.title) THEN v.title ELSE <<>>
    IN (dur > 0 /\ dur < ShortSeconds) \/ includes(title, <<"s","h","o","r","t">>)

\* one entry of shortFlags (lines 364-369)
shortFlag(v) ==
    LET dur == durationSecondsOf(v)
        title == IF v.snippet /\ Truthy(v.title) THEN toLowerCase(v.title) ELSE <<>>
    IN (dur > 0 /\ dur < ShortSeconds) \/ includes(title, <<"s","h","o","r","t">>)

shortCountOf(sample) == Cardinality({i \in 1..Len(sample) : shortFlag(sample[i])})

\* shortsRatio as the fraction num/den (line 371); 0 is 0/1
shortsRatioOf(sample) ==
    IF Len(sample) > 0 THEN [num |-> shortCountOf(sample), den |-> Len(sample)]
    ELSE [num |-> 0, den |-> 1]

\* faulty variant: shorts are tolerated up to half of the sample
shortsRejected_Threshold(cfg, shortsRatio) ==
    ~cfg.allowShorts /\ 2 * shortsRatio.num > shortsRatio.den

\* the shorts filter (line 373)
shortsRejected(cfg, shortsRatio) == ~cfg.allowShorts /\ shortsRatio.num > 0

\* combinedText (lines 379-384)
combinedTextOf(ch, sample) ==
    toLowerCase(joinSpace(
        <<OrEmpty(ch.title), OrEmpty(ch.description)>> \o
        [i \in 1..Len(sample) |->
            IF sample[i].snippet
            THEN sample[i].title \o <<" ">> \o OrEmpty(sample[i].description)
            ELSE <<>>]))

\* the sampleVideos of a record (lines 444-451), without the derived URL
sampleVideosOut(sample) ==
    [i \in 1..Len(sample) |->
        [videoId         |-> sample[i].id,
         title           |-> IF sample[i].snippet THEN sample[i].title ELSE None,
         publishedAt     |-> IF sample[i].snippet THEN sample[i].publishedAt ELSE Null,
         viewCount       |-> IF Truthy(sample[i].viewCount)
                             THEN parseInt(sample[i].viewCount) ELSE 0,
         durationSeconds |-> durationSecondsOf(sample[i])]]

\* faulty variant: the record takes its channelId from the channel's title
recordOf_IdFromTitle(channelId, ch, sample) ==
    [channelId       |-> OrEmpty(ch.title),
     channelName     |-> OrEmpty(ch.title),
     subscriberCount |-> subscriberCountOf(ch),
     avgViews        |-> avgViewsOf(sample),
     sampleSize      |-> Len(sample),
     shortsRatio     |-> shortsRatioOf(sample),
     country         |-> OrEmpty(ch.country),
     description     |-> OrEmpty(ch.description),
     sampleVideos    |-> sampleVideosOut(sample)]

\* the output record (lines 430-452), without the echoed configuration,
\* the derived URL and the timestamp
recordOf(channelId, ch, sample) ==
    [channelId       |-> channelId,
     channelName     |-> OrEmpty(ch.title),
     subscriberCount |-> subscriberCountOf(ch),
     avgViews        |-> avgViewsOf(sample),
     sampleSize      |-> Len(sample),
     shortsRatio     |-> shortsRatioOf(sample),
     country         |-> OrEmpty(ch.country),
     description     |-> OrEmpty(ch.description),
     sampleVideos    |-> sampleVideosOut(sample)]

\* the sample of a candidate: sort, then the first sampleSize (lines 341-342)
sampleVideosOf(cfg, videos) == sliceTo(sortByDateDesc(videos), cfg.sampleSize)

\* faulty variant: avgViewsMax is not looked at
sampleEvaluation_NoMax(cfg, channelId, ch, videos) ==
    IF Len(videos) >= 2 /\ \E i \in 1..Len(videos) : ~videos[i].snippet
    THEN [kind |-> "throw", reason |-> "sort"]
    ELSE
    LET sample == sampleVideosOf(cfg, videos)
        avgViews == avgViewsOf(sample)
        hasRecentWithin == hasRecentWithinOf(cfg, sample)
        shortsRatio == shortsRatioOf(sample)
        combinedText == combinedTextOf(ch, sample)
    IN
    IF hasRecentWithin = "throw" THEN [kind |-> "throw", reason |-> "recency"]
    ELSE IF hasRecentWithin = "false" THEN [kind |-> "skip", reason |-> "not_recent"]
    ELSE IF shortsRejected(cfg, shortsRatio)
    THEN [kind |-> "skip", reason |-> "shorts"]
    ELSE IF anyKeywordIn(combinedText, cfg.excludeKeywords)
    THEN [kind |-> "skip", reason |-> "excluded"]
    ELSE IF Len(cfg.includeKeywords) > 0 /\ ~anyKeywordIn(combinedText, cfg.includeKeywords)
    THEN [kind |-> "skip", reason |-> "not_included"]
    ELSE IF NumLt(avgViews, cfg.avgViewsMin)
    THEN [kind |-> "skip", reason |-> "avg_views_low"]
    ELSE [kind |-> "record", reason |-> "saved", record |-> recordOf(channelId, ch, sample)]

\* lines 340-452: what happens to a candidate once its video details are there:
\* [kind |-> "throw"], [kind |-> "skip", reason |-> ...] or
\* [kind |-> "record", record |-> ...]
sampleEvaluation(cfg, channelId, ch, videos) ==
    IF Len(videos) >= 2 /\ \E i \in 1..Len(videos) : ~videos[i].snippet
    THEN [kind |-> "throw", reason |-> "sort"]
    ELSE
    LET sample == sampleVideosOf(cfg, videos)
        avgViews == avgViewsOf(sample)
        hasRecentWithin == hasRecentWithinOf(cfg, sample)
        shortsRatio == shortsRatioOf(sample)
        combinedText == combinedTextOf(ch, sample)
    IN
    IF hasRecentWithin = "throw" THEN [kind |-> "throw", reason |-> "recency"]
    ELSE IF hasRecentWithin = "false" THEN [kind |-> "skip", reason |-> "not_recent"]
    ELSE IF shortsRejected(cfg, shortsRatio)
    THEN [kind |-> "skip", reason |-> "shorts"]
    ELSE IF anyKeywordIn(combinedText, cfg.excludeKeywords)
    THEN [kind |-> "skip", reason |-> "excluded"]
    ELSE IF Len(cfg.includeKeywords) > 0 /\ ~anyKeywordIn(combinedText, cfg.includeKeywords)
    THEN [kind |-> "skip", reason |-> "not_included"]
    ELSE IF NumLt(avgViews, cfg.avgViewsMin)
    THEN [kind |-> "skip", reason |-> "avg_views_low"]
    ELSE IF cfg.avgViewsMax # Null /\ NumGt(avgViews, cfg.avgViewsMax)
    THEN [kind |-> "skip", reason |-> "avg_views_high"]
    ELSE [kind |-> "record", reason |-> "saved", record |-> recordOf(channelId, ch, sample)]

\* the metrics of lines 342-371, as far as the evaluation computes them
derivedOf(cfg, videos) ==
    LET sample == sampleVideosOf(cfg, videos)
        recent == hasRecentWithinOf(cfg, sample)
    IN [sample |-> sample,
        avgViews |-> avgViewsOf(sample),
        hasRecentWithin |-> recent,
        shortFlags |-> IF recent = "true"
                       THEN [i \in 1..Len(sample) |-> shortFlag(sample[i])] ELSE <<>>,
        shortsRatio |-> IF recent = "true" THEN shortsRatioOf(sample)
                        ELSE [num |-> 0, den |-> 1]]

\* ------------------------------------------------------------ input pools
Str_channel == <<"c","h","a","n","n","e","l">>
IdA == <<"U","C">> \o [i \in 1..20 |-> "a"]
IdB == <<"U","C">> \o [i \in 1..20 |-> "b"]
IdC == <<"U","C">> \o [i \in 1..20 |-> "c"]
\* "https://y.t/channel/UCbbbbbbbbbbbbbbbbbbbb"
UrlChannelB == HttpsPrefix \o <<"y",".","t","/">> \o Str_channel \o <<"/">> \o IdB
\* "https://y.t/c/joe", a vanity URL
UrlVanity == HttpsPrefix \o <<"y",".","t","/","c","/","j","o","e">>
\* "https://y t/channel/x": URL() throws on it
UrlMalformed == HttpsPrefix \o <<"y"," ","t","/">> \o Str_channel \o <<"/","x">>
\* " UCaaaaaaaaaaaaaaaaaaaa " and a blank seed
PaddedIdA == <<" ">> \o IdA \o <<" ">>
BlankSeed == <<" ">>
NameSeed == <<"j","o","e">>

\* the seedChannels / searchQueries pairs of the runs that are followed
Collections ==
    { [seeds |-> <<>>, queries |-> <<>>],
      [seeds |-> <<IdA, NameSeed, IdA>>, queries |-> <<>>],
      [seeds |-> <<UrlChannelB, PaddedIdA>>, queries |-> <<NameSeed>>],
      [seeds |-> <<BlankSeed, UrlMalformed, UrlVanity>>, queries |-> <<>>] }

\* apiKey as JS sees it: [type, truthy, str]
ApiKeys ==
    { [type |-> "undefined", truthy |-> FALSE, str |-> <<>>],
      [type |-> "number",    truthy |-> TRUE,  str |-> <<>>],
      [type |-> "string",    truthy |-> FALSE, str |-> <<>>],
      [type |-> "string",    truthy |-> TRUE,  str |-> <<" ", " ">>],
      [type |-> "string",    truthy |-> TRUE,  str |-> <<"k">>] }
ValidKey == [type |-> "string", truthy |-> TRUE, str |-> <<"k">>]

DefaultExcludeKeywords ==
    << <<"e","n","t","r","e","p","r","e","n","e","u","r">>,
       <<"m","a","r","k","e","t","i","n","g">>,
       <<"g","u","r","u">>,
       <<"g","r","o","w","t","h">>,
       <<"7","-","f","i","g","u","r","e">>,
       <<"f","u","n","n","e","l">>,
       <<"a","g","e","n","c","y">> >>

\* the defaults of lines 38-54
DefaultInput ==
    [apiKey |-> ValidKey,
     minSubscribers |-> 1000,
     avgViewsMin |-> 0,
     avgViewsMax |-> Null,
     recentVideoWithinDays |-> 30,
     sampleSize |-> 12,
     allowShorts |-> FALSE,
     includeKeywords |-> <<>>,
     excludeKeywords |-> DefaultExcludeKeywords,
     country |-> <<>>,
     maxChannels |-> 200,
     seedChannels |-> <<>>,
     searchQueries |-> <<>>]

\* inputs under which a candidate fails several checks at once: one seed,
\* one record wanted, a sample of at most two videos
Str_ca == <<"c","a">>
Str_coach == <<"c","o","a","c","h">>
Str_zen == <<"z","e","n">>
OneSeedInput == [DefaultInput EXCEPT !.seedChannels = <<IdA>>, !.maxChannels = 1, !.sampleSize = 2]
AllFailInput ==
    [OneSeedInput EXCEPT !.recentVideoWithinDays = 3, !.excludeKeywords = <<Str_coach>>,
                         !.includeKeywords = <<Str_zen>>, !.avgViewsMin = 5000]
StrictInputs ==
    { [OneSeedInput EXCEPT !.country = Str_ca, !.minSubscribers = 6000],
      [OneSeedInput EXCEPT !.minSubscribers = 6000],
      AllFailInput,
      [AllFailInput EXCEPT !.recentVideoWithinDays = 0],
      [AllFailInput EXCEPT !.recentVideoWithinDays = 0, !.excludeKeywords = <<>>],
      [AllFailInput EXCEPT !.recentVideoWithinDays = 0, !.excludeKeywords = <<>>,
                           !.includeKeywords = <<>>],
      [AllFailInput EXCEPT !.recentVideoWithinDays = 0, !.excludeKeywords = <<>>,
                           !.includeKeywords = <<>>, !.avgViewsMin = 0,
                           !.avgViewsMax = 500] }

\* the inputs of the runs that are followed
RunInputs ==
    { [DefaultInput EXCEPT !.maxChannels = mc, !.allowShorts = a, !.sampleSize = n,
                           !.seedChannels = c.seeds, !.searchQueries = c.queries] :
        mc \in 0..MaxMaxChannels, a \in BOOLEAN, n \in 1..MaxLimit, c \in Collections }
    \cup { [DefaultInput EXCEPT !.apiKey = k, !.seedChannels = <<IdA>>,
                                !.searchQueries = <<NameSeed>>] : k \in ApiKeys }
    \cup StrictInputs

\* --------------------------------------------------- remote API responses
SeqsUpTo(S, n) == UNION { [1..k -> S] : k \in 0..n }
\* the same, without repeated elements
DistinctSeqsUpTo(S, n) ==
    { q \in SeqsUpTo(S, n) : \A i, j \in 1..Len(q) : i # j => q[i] # q[j] }

\* search.list items: [snippetChannelId, idChannelId]
SearchItem(a, b) == [snippetChannelId |-> a, idChannelId |-> b]
SearchItemLists ==
    { <<>>, <<SearchItem(IdA, None)>>, <<SearchItem(IdB, IdB), SearchItem(IdA, IdA)>>,
      <<SearchItem(None, IdC), SearchItem(None, None)>>,
      <<SearchItem(IdC, None), SearchItem(IdC, None)>> }

Str_Coach == <<"L","i","f","e"," ","C","o","a","c","h">>
Str_about == <<"a","b","o","u","t">>
ChannelGood ==
    [title |-> Str_Coach, description |-> Str_about, country |-> <<"U","S">>,
     hiddenSubscriberCount |-> FALSE, subscriberCount |-> <<"5","0","0","0">>,
     uploads |-> <<"U","U">>]
ChannelPool ==
    { ChannelGood,
      [ChannelGood EXCEPT !.hiddenSubscriberCount = TRUE],
      [ChannelGood EXCEPT !.uploads = None, !.country = None] }

Video(id, snippet, title, description, publishedAt, viewCount, duration) ==
    [id |-> id, snippet |-> snippet, title |-> title, description |-> description,
     publishedAt |-> publishedAt, viewCount |-> viewCount, duration |-> duration]
VideoLong ==
    Video("v1", TRUE, <<"T","a","l","k">>, None, Now - 10,
          <<"1","0","0","0">>, <<"P","T","1","0","M">>)
VideoBrief ==
    Video("v2", TRUE, <<"C","l","i","p">>, <<"h","i">>, Now - 5,
          <<"3","0","0","1">>, <<"P","T","4","5","S">>)
VideoNoSnippet ==
    Video("v3", FALSE, <<>>, None, 0, None, None)
VideoPool == { VideoLong, VideoBrief, VideoNoSnippet }

\* playlistItems.list items: the contentDetails.videoId, None when absent
PlaylistItemPool == { <<"v">>, None }
PageTokens == { None, <<"t">> }

\* a response body: [hasItems, items, nextPageToken]
Body(items, token) == [hasItems |-> TRUE, items |-> items, nextPageToken |-> token]
BodyWithoutItems == [hasItems |-> FALSE, items |-> <<>>, nextPageToken |-> None]

Bodies(path) ==
    {BodyWithoutItems} \cup
    CASE path = "search" -> { Body(l, None) : l \in SearchItemLists }
      [] path = "channels" -> { Body(l, None) : l \in SeqsUpTo(ChannelPool, 1) }
      [] path = "playlistItems" ->
            { Body(l, t) : l \in SeqsUpTo(PlaylistItemPool, MaxItems), t \in PageTokens }
      [] path = "videos" -> { Body(l, None) : l \in DistinctSeqsUpTo(VideoPool, MaxItems) }

\* what one fetch() can come back with
Responses(path) ==
    { [kind |-> "ok", status |-> 200, body |-> b] : b \in Bodies(path) }
    \cup { [kind |-> "status", status |-> st, body |-> BodyWithoutItems] : st \in {403, 429, 500} }
    \cup { [kind |-> "reject", status |-> 0, body |-> BodyWithoutItems] }

\* ------------------------------------------------------------------ state
VARIABLES
    input,                \* the actor input (line 37)
    pc,                   \* where Apify.main stands
    candidateChannelIds,  \* the Set of line 240, in insertion order
    seedIdx, queryIdx,    \* positions of the two collection loops
    channelIdsArray, idx, processed, results,   \* lines 266-271
    dataset, output,      \* the record sink and the OUTPUT slot
    ch,                   \* channel item of the candidate under evaluation
    ids, pageToken,       \* locals of getPlaylistVideoIds
    pageSeen,             \* getPlaylistVideoIds has received a page in this call
    videoIds, all, chunkI,\* argument and locals of getVideosDetails
    derived,              \* the metrics computed for the sample under evaluation
    outcome,              \* how the last candidate ended
    failed,               \* some seed, query or candidate was abandoned on a failure
    call,                 \* the youtubeApiRequest in progress
    obs,                  \* the responses and sleeps of a call observed on its own
    paced                 \* a sleep was made since the last fetch (or none was made yet)

collectVars == <<candidateChannelIds, seedIdx, queryIdx>>
loopVars == <<channelIdsArray, idx, processed, results>>
sinkVars == <<dataset, output>>
evalVars == <<ch, ids, pageToken, pageSeen, videoIds, all, chunkI, derived>>
callVars == <<call, obs>>
vars == <<input, pc, collectVars, loopVars, sinkVars, evalVars, outcome, failed, callVars, paced>>

NoChannel ==
    [title |-> None, description |-> None, country |-> None,
     hiddenSubscriberCount |-> FALSE, subscriberCount |-> None, uploads |-> None]
NoResult == [kind |-> "none", body |-> BodyWithoutItems, msg |-> "none"]
IdleCall == [path |-> "none", attempt |-> 0, state |-> "idle", result |-> NoResult]
NoObs == [log |-> <<>>, waits |-> <<>>]
NoOutput == [written |-> FALSE, collected |-> 0, results |-> <<>>]
NoDerived == [sample |-> <<>>, avgViews |-> 0, hasRecentWithin |-> "none",
              shortFlags |-> <<>>, shortsRatio |-> [num |-> 0, den |-> 1]]

Init ==
    /\ input \in RunInputs
    /\ pc = "start"
    /\ candidateChannelIds = <<>>
    /\ seedIdx = 1 /\ queryIdx = 1
    /\ channelIdsArray = <<>> /\ idx = 1 /\ processed = {} /\ results = <<>>
    /\ dataset = <<>> /\ output = NoOutput
    /\ ch = NoChannel
    /\ ids = <<>> /\ pageToken = None /\ pageSeen = FALSE
    /\ videoIds = <<>> /\ all = <<>> /\ chunkI = 0 /\ derived = NoDerived
    /\ outcome = "none" /\ failed = FALSE
    /\ call = IdleCall /\ obs = NoObs /\ paced = TRUE

\* ------------------------------------------------------ youtubeApiRequest
RECURSIVE Pow2(_)
Pow2(n) == IF n = 0 THEN 1 ELSE 2 * Pow2(n - 1)

IsRateLimit(r) == r.kind = "status" /\ r.status \in {403, 429}

\* the message of a failed attempt (line 121, or the fetch error's own)
msgOf(r) ==
    IF r.kind = "reject" THEN "fetch failed"
    ELSE IF r.status = 403 THEN "YouTube API error 403"
    ELSE IF r.status = 429 THEN "YouTube API error 429"
    ELSE "YouTube API error 500"

\* the backoff of lines 125 and 139, computed after attempt was incremented
waitOf(attempt) == BackoffBaseMs * Pow2(attempt)

\* faulty variant: a rate-limit response does not count as an attempt
requestStep_RateLimitUncounted(attempt, r) ==
    IF r.kind = "ok"
    THEN [attempt |-> attempt, state |-> "done", wait |-> 0,
          result |-> [kind |-> "json", body |-> r.body, msg |-> "none"]]
    ELSE IF IsRateLimit(r)
    THEN [attempt |-> attempt, wait |-> waitOf(attempt + 1), state |-> "fetch",
          result |-> NoResult]
    ELSE IF attempt + 1 > maxRetries
    THEN [attempt |-> attempt + 1, state |-> "done", wait |-> 0,
          result |-> [kind |-> "throw", body |-> BodyWithoutItems, msg |-> msgOf(r)]]
    ELSE [attempt |-> attempt + 1, state |-> "fetch", wait |-> waitOf(attempt + 1),
          result |-> NoResult]

\* faulty variant: a successful response falls out of the loop without being returned
requestStep_NoReturn(attempt, r) ==
    IF r.kind = "ok"
    THEN [attempt |-> attempt, state |-> "done", wait |-> 0,
          result |-> [kind |-> "undefined", body |-> BodyWithoutItems, msg |-> "none"]]
    ELSE IF IsRateLimit(r)
    THEN [attempt |-> attempt + 1, wait |-> waitOf(attempt + 1),
          state |-> IF attempt + 1 <= maxRetries THEN "fetch" ELSE "done",
          result |-> IF attempt + 1 <= maxRetries THEN NoResult
                     ELSE [kind |-> "undefined", body |-> BodyWithoutItems, msg |-> "none"]]
    ELSE IF attempt + 1 > maxRetries
    THEN [attempt |-> attempt + 1, state |-> "done", wait |-> 0,
          result |-> [kind |-> "throw", body |-> BodyWithoutItems, msg |-> msgOf(r)]]
    ELSE [attempt |-> attempt + 1, state |-> "fetch", wait |-> waitOf(attempt + 1),
          result |-> NoResult]

\* one turn of the while loop (lines 110-143) on response r:
\* the new attempt, whether the loop goes on, the result and the sleep made
requestStep(attempt, r) ==
    IF r.kind = "ok"
    THEN [attempt |-> attempt, state |-> "done", wait |-> 0,
          result |-> [kind |-> "json", body |-> r.body, msg |-> "none"]]
    ELSE IF IsRateLimit(r)
    THEN [attempt |-> attempt + 1, wait |-> waitOf(attempt + 1),
          state |-> IF attempt + 1 <= maxRetries THEN "fetch" ELSE "done",
          result |-> IF attempt + 1 <= maxRetries THEN NoResult
                     ELSE [kind |-> "undefined", body |-> BodyWithoutItems, msg |-> "none"]]
    ELSE IF attempt + 1 > maxRetries
    THEN [attempt |-> attempt + 1, state |-> "done", wait |-> 0,
          result |-> [kind |-> "throw", body |-> BodyWithoutItems, msg |-> msgOf(r)]]
    ELSE [attempt |-> attempt + 1, state |-> "fetch", wait |-> waitOf(attempt + 1),
          result |-> NoResult]

\* entering youtubeApiRequest (lines 104-109)
NewCall(path) == [path |-> path, attempt |-> 0, state |-> "fetch", result |-> NoResult]
StartCall(path) == call' = NewCall(path) /\ UNCHANGED obs

\* leaving it: the caller has taken the result
EndCall == call' = IdleCall /\ UNCHANGED obs

\* fetch, and the handling of its response, up to the next fetch or the exit;
\* attempt is a local, gone when the call has returned or thrown
afterStep(c, st) ==
    [c EXCEPT !.attempt = IF st.state = "done" THEN 0 ELSE st.attempt,
              !.state = st.state, !.result = st.result]

Fetch ==
    /\ call.state = "fetch"
    /\ \E r \in Responses(call.path) :
         /\ call' = afterStep(call, requestStep(call.attempt, r))
         /\ paced' = (requestStep(call.attempt, r).wait > 0)
    /\ UNCHANGED <<input, pc, collectVars, loopVars, sinkVars, evalVars, outcome, failed, obs>>

\* ------------------------------------------------------------ entry check
\* faulty variant: a blank key is not trimmed before it is compared with ''
apiKeyMissing_NoTrim(apiKey) ==
    \/ ~apiKey.truthy
    \/ apiKey.type # "string"
    \/ apiKey.str = <<>>

\* lines 56-59
apiKeyMissing(apiKey) ==
    \/ ~apiKey.truthy
    \/ apiKey.type # "string"
    \/ trim(apiKey.str) = <<>>

CheckApiKey ==
    /\ pc = "start"
    /\ pc' = IF apiKeyMissing(input.apiKey) THEN "aborted" ELSE "seeds"
    /\ UNCHANGED <<input, collectVars, loopVars, sinkVars, evalVars, outcome, failed, callVars, paced>>

\* --------------------------------------------------- candidate collection
\* faulty variant: a new ID is put in front of the candidates
setAdd_Front(set, id) == IF id \in Range(set) THEN set ELSE <<id>> \o set

\* Set.prototype.add on the insertion-ordered set
setAdd(set, id) == IF id \in Range(set) THEN set ELSE Append(set, id)
RECURSIVE setAddAll(_, _)
setAddAll(set, idsToAdd) ==
    IF idsToAdd = <<>> THEN set
    ELSE setAddAll(setAdd(set, Head(idsToAdd)), Tail(idsToAdd))

\* lines 156-161: the channel IDs of a search response
RECURSIVE channelIdsOfItems(_)
channelIdsOfItems(items) ==
    IF items = <<>> THEN <<>>
    ELSE LET it == Head(items)
             channelId == IF Truthy(it.snippetChannelId) THEN it.snippetChannelId
                          ELSE it.idChannelId
         IN (IF Truthy(channelId) THEN <<channelId>> ELSE <<>>)
            \o channelIdsOfItems(Tail(items))

\* what discoverChannelsBySearch returns for the result of its request
discoverOut(result) ==
    IF result.kind = "json" /\ result.body.hasItems
    THEN channelIdsOfItems(result.body.items)
    ELSE <<>>

\* one turn of the seed loop (lines 243-256), up to its search request
SeedStep ==
    /\ pc = "seeds"
    /\ IF seedIdx > Len(input.seedChannels)
       THEN /\ pc' = "queries"
            /\ UNCHANGED <<collectVars, callVars>>
       ELSE LET normalized == normalizeChannelIdOrUrl(input.seedChannels[seedIdx]) IN
            IF ~Truthy(normalized)
            THEN /\ seedIdx' = seedIdx + 1
                 /\ UNCHANGED <<pc, candidateChannelIds, queryIdx, callVars>>
            ELSE IF IsChannelId(normalized)
            THEN /\ candidateChannelIds' = setAdd(candidateChannelIds, normalized)
                 /\ seedIdx' = seedIdx + 1
                 /\ UNCHANGED <<pc, queryIdx, callVars>>
            ELSE /\ StartCall("search")
                 /\ pc' = "seed_search"
                 /\ UNCHANGED collectVars
    /\ UNCHANGED <<input, loopVars, sinkVars, evalVars, outcome, failed, paced>>

\* discoverChannelsBySearch returns to the seed loop (lines 156-166, 253)
SeedSearchReturn ==
    /\ pc = "seed_search" /\ call.state = "done"
    /\ candidateChannelIds' = setAddAll(candidateChannelIds, discoverOut(call.result))
    /\ seedIdx' = seedIdx + 1
    /\ pc' = "seeds"
    /\ failed' = (failed \/ call.result.kind # "json")
    /\ paced' = (paced \/ call.result.kind # "throw")
    /\ EndCall
    /\ UNCHANGED <<input, queryIdx, loopVars, sinkVars, evalVars, outcome>>

\* one turn of the query loop (lines 259-262), up to its search request
QueryStep ==
    /\ pc = "queries"
    /\ IF queryIdx > Len(input.searchQueries)
       THEN pc' = "truncate" /\ UNCHANGED callVars
       ELSE StartCall("search") /\ pc' = "query_search"
    /\ UNCHANGED <<input, collectVars, loopVars, sinkVars, evalVars, outcome, failed, paced>>

\* discoverChannelsBySearch returns to the query loop (lines 156-166, 261)
QuerySearchReturn ==
    /\ pc = "query_search" /\ call.state = "done"
    /\ candidateChannelIds' = setAddAll(candidateChannelIds, discoverOut(call.result))
    /\ queryIdx' = queryIdx + 1
    /\ pc' = "queries"
    /\ failed' = (failed \/ call.result.kind # "json")
    /\ paced' = (paced \/ call.result.kind # "throw")
    /\ EndCall
    /\ UNCHANGED <<input, seedIdx, loopVars, sinkVars, evalVars, outcome>>

\* Math.max(maxChannels, 0)
maxZero(n) == IF n > 0 THEN n ELSE 0

\* faulty variant: the candidates are not cut to maxChannels
truncateCandidates_NoSlice(set, maxChannels) == set

\* Array.from(candidateChannelIds).slice(0, Math.max(maxChannels, 0))  (line 268)
truncateCandidates(set, maxChannels) == sliceTo(set, maxZero(maxChannels))

\* lines 266-268
Truncate ==
    /\ pc = "truncate"
    /\ channelIdsArray' = truncateCandidates(candidateChannelIds, input.maxChannels)
    /\ results' = <<>> /\ processed' = {} /\ idx' = 1
    /\ pc' = "loop"
    /\ UNCHANGED <<input, collectVars, sinkVars, evalVars, outcome, failed, callVars, paced>>

\* ------------------------------------------------------- evaluation loop
\* the locals of one loop turn are gone when the turn ends
ClearLocals ==
    /\ ch' = NoChannel
    /\ ids' = <<>> /\ pageToken' = None /\ pageSeen' = FALSE
    /\ videoIds' = <<>> /\ all' = <<>> /\ chunkI' = 0
    /\ derived' = NoDerived

\* faulty variant: an error while a candidate is evaluated is not caught
FinishCandidate_Abort(how) ==
    /\ idx' = idx + 1
    /\ pc' = IF how = "error" THEN "aborted" ELSE "loop"
    /\ outcome' = how
    /\ failed' = (failed \/ how \in {"error", "push_failed"})
    /\ ClearLocals
    /\ EndCall

\* the turn for the current candidate ends (continue, catch, or line 466):
\* the for statement moves to the next index
FinishCandidate(how) ==
    /\ idx' = idx + 1
    /\ pc' = "loop"
    /\ outcome' = how
    /\ failed' = (failed \/ how \in {"error", "push_failed"})
    /\ ClearLocals
    /\ EndCall

\* the head of the for loop (lines 271-277), up to the channels request
LoopHead ==
    /\ pc = "loop"
    /\ IF idx <= Len(channelIdsArray) /\ Len(results) < input.maxChannels
       THEN IF channelIdsArray[idx] \in processed
            THEN idx' = idx + 1 /\ UNCHANGED <<pc, processed, callVars>>
            ELSE /\ processed' = processed \cup {channelIdsArray[idx]}
                 /\ StartCall("channels")
                 /\ pc' = "channels"
                 /\ UNCHANGED idx
       ELSE pc' = "summary" /\ UNCHANGED <<idx, processed, callVars>>
    /\ outcome' = "none"
    /\ UNCHANGED <<input, collectVars, channelIdsArray, results, sinkVars, evalVars, failed, paced>>

\* getChannelsDetails returns (lines 177-178) and the channel is screened
\* (lines 278-327), up to the first playlistItems request
ChannelsReturn ==
    /\ pc = "channels" /\ call.state = "done"
    /\ LET r == call.result
           items == IF r.body.hasItems THEN r.body.items ELSE <<>>
       IN
       IF r.kind # "json"
       THEN FinishCandidate("error") /\ UNCHANGED results
       ELSE IF items = <<>>
       THEN FinishCandidate("no_details") /\ UNCHANGED results
       ELSE IF channelFilter(input, items[1]) # "pass"
       THEN FinishCandidate(channelFilter(input, items[1])) /\ UNCHANGED results
       ELSE /\ ch' = items[1]
            /\ ids' = <<>> /\ pageToken' = None /\ pageSeen' = FALSE
            /\ StartCall("playlistItems")
            /\ pc' = "playlist"
            /\ UNCHANGED <<idx, results, outcome, failed, videoIds, all, chunkI, derived>>
    /\ paced' = TRUE
    /\ UNCHANGED <<input, collectVars, channelIdsArray, processed, sinkVars>>

\* faulty variant: the page loop does not stop at the limit
RECURSIVE pushIds_NoBreak(_, _, _)
pushIds_NoBreak(have, items, limit) ==
    IF items = <<>> THEN have
    ELSE pushIds_NoBreak(IF Truthy(Head(items)) THEN Append(have, Head(items)) ELSE have,
                         Tail(items), limit)

\* the for loop of lines 194-197 over one page
RECURSIVE pushIds(_, _, _)
pushIds(have, items, limit) ==
    IF items = <<>> THEN have
    ELSE LET now == IF Truthy(Head(items)) THEN Append(have, Head(items)) ELSE have
         IN IF Len(now) >= limit THEN now ELSE pushIds(now, Tail(items), limit)

\* faulty variant: the catch returns an empty list instead of what was collected
idsAfter_DropsOnError(result, have, limit) ==
    IF result.kind = "json"
    THEN pushIds(have, IF result.body.hasItems THEN result.body.items ELSE <<>>, limit)
    ELSE <<>>

\* ids after a page request has returned: the page's IDs are pushed, or the
\* catch of line 201 keeps what was collected
idsAfter(result, have, limit) ==
    IF result.kind = "json"
    THEN pushIds(have, IF result.body.hasItems THEN result.body.items ELSE <<>>, limit)
    ELSE have

\* the while condition of line 200
morePages(token, have, limit) == Truthy(token) /\ Len(have) < limit

\* a playlistItems request has returned: the rest of the do-while turn
\* (lines 193-200), then the next page request, or the return of
\* getPlaylistVideoIds and lines 328-334 up to the videos request
PlaylistReturn ==
    /\ pc = "playlist" /\ call.state = "done"
    /\ LET r == call.result
           got == idsAfter(r, ids, input.sampleSize)
       IN
       IF r.kind = "json" /\ morePages(r.body.nextPageToken, got, input.sampleSize)
       THEN /\ ids' = got /\ pageToken' = r.body.nextPageToken /\ pageSeen' = TRUE
            /\ StartCall("playlistItems")
            /\ UNCHANGED <<pc, idx, outcome, failed, ch, videoIds, all, chunkI, derived>>
       ELSE IF got = <<>>
       THEN FinishCandidate("no_videos")
       ELSE /\ videoIds' = got /\ all' = <<>> /\ chunkI' = 0
            /\ ids' = <<>> /\ pageToken' = None /\ pageSeen' = FALSE
            /\ StartCall("videos")
            /\ pc' = "videos"
            /\ UNCHANGED <<idx, outcome, failed, ch, derived>>
    /\ paced' = (paced \/ call.result.kind = "json")
    /\ UNCHANGED <<input, collectVars, channelIdsArray, processed, results, sinkVars>>

\* a videos request has returned: the rest of the chunk loop turn (lines
\* 219-224), then the next chunk, or the return of getVideosDetails and the
\* evaluation of the sample up to results.push (lines 335-454)
VideosReturn ==
    /\ pc = "videos" /\ call.state = "done"
    /\ LET r == call.result
           got == IF r.kind = "json" /\ r.body.hasItems THEN all \o r.body.items ELSE all
           ev == sampleEvaluation(input, channelIdsArray[idx], ch, got)
       IN
       IF chunkI + chunkSize < Len(videoIds)
       THEN /\ all' = got /\ chunkI' = chunkI + chunkSize
            /\ StartCall("videos")
            /\ UNCHANGED <<pc, idx, outcome, failed, results, ch, ids, pageToken, pageSeen,
                           videoIds, derived>>
       ELSE IF got = <<>>
       THEN FinishCandidate("no_video_details") /\ UNCHANGED results
       ELSE IF ev.kind = "throw"
       THEN FinishCandidate("error") /\ UNCHANGED results
       ELSE IF ev.kind = "skip"
       THEN FinishCandidate(ev.reason) /\ UNCHANGED results
       ELSE /\ results' = Append(results, ev.record)
            /\ pc' = "push"
            /\ EndCall
            /\ UNCHANGED <<idx, outcome, failed, evalVars>>
    /\ paced' = TRUE
    /\ UNCHANGED <<input, collectVars, channelIdsArray, processed, sinkVars>>

\* faulty variant: a record the sink refused is taken back out of results
PushData_RollsBack ==
    /\ pc = "push"
    /\ \E ok \in BOOLEAN :
         /\ dataset' = IF ok THEN Append(dataset, results[Len(results)]) ELSE dataset
         /\ results' = IF ok THEN results ELSE SubSeq(results, 1, Len(results) - 1)
         /\ FinishCandidate(IF ok THEN "saved" ELSE "push_failed")
    /\ paced' = TRUE
    /\ UNCHANGED <<input, collectVars, channelIdsArray, processed, output>>

\* Apify.pushData(record) succeeds or fails (lines 455-466)
PushData ==
    /\ pc = "push"
    /\ \E ok \in BOOLEAN :
         /\ dataset' = IF ok THEN Append(dataset, results[Len(results)]) ELSE dataset
         /\ FinishCandidate(IF ok THEN "saved" ELSE "push_failed")
    /\ paced' = TRUE
    /\ UNCHANGED <<input, collectVars, channelIdsArray, processed, results, output>>

\* faulty variant: the summary counts the records the sink has taken
WriteSummary_CountsDataset ==
    /\ pc = "summary"
    /\ output' = [written |-> TRUE, collected |-> Len(dataset), results |-> results]
    /\ pc' = "done"
    /\ UNCHANGED <<input, collectVars, loopVars, dataset, evalVars, outcome, failed, callVars, paced>>

\* lines 470-492
WriteSummary ==
    /\ pc = "summary"
    /\ output' = [written |-> TRUE, collected |-> Len(results), results |-> results]
    /\ pc' = "done"
    /\ UNCHANGED <<input, collectVars, loopVars, dataset, evalVars, outcome, failed, callVars, paced>>

Next ==
    \/ CheckApiKey
    \/ SeedStep
    \/ SeedSearchReturn
    \/ QueryStep
    \/ QuerySearchReturn
    \/ Truncate
    \/ LoopHead
    \/ Fetch
    \/ ChannelsReturn
    \/ PlaylistReturn
    \/ VideosReturn
    \/ PushData
    \/ WriteSummary

Spec == Init /\ [][Next]_vars

\* the steps of Next other than SeedStep and VideosReturn
OtherSteps ==
    \/ CheckApiKey \/ SeedSearchReturn \/ QueryStep \/ QuerySearchReturn \/ Truncate
    \/ LoopHead \/ Fetch \/ ChannelsReturn \/ PlaylistReturn \/ PushData \/ WriteSummary

\* The run with its steps taken one after the other to the end: an await that
\* is pending (a fetch, a sink write) does come back, and the code after it is
\* executed.  This is weak fairness of every step.  WF_vars(A) is
\* []<>~ENABLED <<A>>_vars \/ []<><<A>>_vars; for SeedStep and VideosReturn the
\* enabling condition is written out: it is the guard of the action, as each
\* of their steps changes pc, seedIdx or the call.
SpecLive ==
    /\ Spec
    /\ WF_vars(OtherSteps)
    /\ ([]<>(pc # "seeds") \/ []<><<SeedStep>>_vars)
    /\ ([]<>~(pc = "videos" /\ call.state = "done") \/ []<><<VideosReturn>>_vars)

\* ================================================================
\* One youtubeApiRequest call on its own, with every response and
\* every backoff sleep of the call recorded in obs.
\* ================================================================
Paths == {"search", "channels", "playlistItems", "videos"}

InitReq ==
    /\ input = DefaultInput
    /\ pc = "request"
    /\ candidateChannelIds = <<>>
    /\ seedIdx = 1 /\ queryIdx = 1
    /\ channelIdsArray = <<>> /\ idx = 1 /\ processed = {} /\ results = <<>>
    /\ dataset = <<>> /\ output = NoOutput
    /\ ch = NoChannel
    /\ ids = <<>> /\ pageToken = None /\ pageSeen = FALSE
    /\ videoIds = <<>> /\ all = <<>> /\ chunkI = 0 /\ derived = NoDerived
    /\ outcome = "none" /\ failed = FALSE
    /\ call \in { NewCall(p) : p \in Paths } /\ obs = NoObs /\ paced = TRUE

\* Fetch, observed: the response and the sleep of the turn are logged
ObservedFetch ==
    /\ pc = "request"
    /\ call.state = "fetch"
    /\ \E r \in Responses(call.path) :
         LET st == requestStep(call.attempt, r) IN
         /\ call' = afterStep(call, st)
         /\ paced' = (st.wait > 0)
         /\ obs' = [log |-> Append(obs.log, r),
                    waits |-> IF st.wait > 0 THEN Append(obs.waits, st.wait)
                              ELSE obs.waits]
    /\ UNCHANGED <<input, pc, collectVars, loopVars, sinkVars, evalVars, outcome, failed>>

NextReq == ObservedFetch

SpecReq == InitReq /\ [][NextReq]_vars

\* ================================================================
\* The evaluation of one candidate as a function of the configuration,
\* the channel item and the video details it was given.
\* ================================================================
\* largest number of video details in an evaluated sample drawn from the pool
MaxEvalVideos == 2

Str_short == <<"s","h","o","r","t">>
VideoShortsTitle ==
    Video("v4", TRUE, <<"M","y"," ","S","H","O","R","T","S">>, None, Now - 3,
          <<"2","0","0","0">>, <<"P","T","1","H","2","M","3","0","S">>)
VideoNoDuration ==
    Video("v5", TRUE, <<"S","h","i","r","t">>, None, Now - 20, <<"4","0","0","0">>, None)
VideoMinute ==
    Video("v6", TRUE, <<"L","i","v","e">>, None, Now - 100, None, <<"P","T","1","M">>)
EvalVideoPool ==
    { VideoLong, VideoBrief, VideoNoSnippet, VideoShortsTitle, VideoNoDuration, VideoMinute }

\* five videos, two of them short (one by duration, one by title)
FiveVideos == <<VideoLong, VideoBrief, VideoNoDuration, VideoShortsTitle, VideoMinute>>

EvalSamples == (SeqsUpTo(EvalVideoPool, MaxEvalVideos) \ {<<>>}) \cup {FiveVideos}

EvalInputs ==
    { [DefaultInput EXCEPT !.allowShorts = a, !.recentVideoWithinDays = d, !.sampleSize = n] :
        a \in BOOLEAN, d \in {0, 30}, n \in {1, 12} }

InitEval ==
    /\ input \in EvalInputs
    /\ pc = "evaluate"
    /\ candidateChannelIds = <<IdA>>
    /\ seedIdx = 1 /\ queryIdx = 1
    /\ channelIdsArray = <<IdA>> /\ idx = 1 /\ processed = {IdA} /\ results = <<>>
    /\ dataset = <<>> /\ output = NoOutput
    /\ ch \in ChannelPool
    /\ ids = <<>> /\ pageToken = None /\ pageSeen = FALSE
    /\ videoIds = <<>> /\ all \in EvalSamples /\ chunkI = 0 /\ derived = NoDerived
    /\ outcome = "none" /\ failed = FALSE
    /\ call = IdleCall /\ obs = NoObs /\ paced = TRUE

\* lines 282-454 applied to ch and the video details in all
Evaluate ==
    /\ pc = "evaluate"
    /\ LET verdict == channelFilter(input, ch)
           ev == sampleEvaluation(input, channelIdsArray[idx], ch, all)
       IN
       IF verdict # "pass"
       THEN outcome' = verdict /\ UNCHANGED <<results, derived>>
       ELSE IF ev.kind = "throw"
       THEN outcome' = "error" /\ UNCHANGED <<results, derived>>
       ELSE /\ outcome' = ev.reason
            /\ derived' = derivedOf(input, all)
            /\ results' = IF ev.kind = "record" THEN Append(results, ev.record) ELSE results
    /\ pc' = "evaluated"
    /\ UNCHANGED <<input, collectVars, channelIdsArray, idx, processed, sinkVars,
                   ch, ids, pageToken, pageSeen, videoIds, all, chunkI, failed, callVars, paced>>

NextEval == Evaluate

SpecEval == InitEval /\ [][NextEval]_vars

\* ================================================================
\* The same evaluation under configurations that set each filter of
\* lines 295-427: subscribers, keywords, average views, recency, and the
\* sample size (0 is the one value that leaves the sample empty).
\* ================================================================
ChannelHidden == [ChannelGood EXCEPT !.hiddenSubscriberCount = TRUE]
\* a channel at exactly 1000 subscribers, with no word of the keywords used
ChannelSmall ==
    [ChannelGood EXCEPT !.title = <<"Y","o","g","a">>, !.description = None,
                        !.country = <<"C","A">>,
                        !.subscriberCount = <<"1","0","0","0">>]
\* "Life Coach" whose description is "about Guru"
ChannelGuru ==
    [ChannelGood EXCEPT !.description = <<"a","b","o","u","t"," ","G","u","r","u">>,
                        !.country = None]
\* statistics without a subscriberCount, and not marked hidden
ChannelNoStats == [ChannelGood EXCEPT !.subscriberCount = None]
FilterChannelPool == { ChannelGood, ChannelHidden, ChannelSmall, ChannelGuru, ChannelNoStats }

VideoGuru ==
    Video("v7", TRUE, <<"O","l","d">>, <<"g","u","r","u"," ","t","a","l","k">>, Now - 100,
          <<"2","0","0","0">>, <<"P","T","1","M">>)
\* published exactly recentVideoWithinDays (30) days ago
VideoThird ==
    Video("v8", TRUE, <<"L","i","v","e">>, None, Now - 30,
          <<"3","0","0","0">>, <<"P","T","2","H">>)
FilterVideoPool ==
    { VideoLong, VideoBrief, VideoMinute, VideoGuru, VideoThird, VideoNoSnippet }
\* view counts 1000, 2000, 3000
ThreeVideos == <<VideoLong, VideoGuru, VideoThird>>
FilterSamples ==
    (DistinctSeqsUpTo(FilterVideoPool, MaxEvalVideos) \ {<<>>}) \cup {ThreeVideos}

Str_GURU == <<"G","U","R","U">>
FilterExcludeKeywords == { <<>>, << <<>>, Str_GURU >> }
FilterIncludeKeywords == { <<>>, << <<>> >>, << Str_about, <<"C","o","a","c","h">> >> }
FilterViewBounds ==
    { [min |-> 0, max |-> Null], [min |-> 2000, max |-> Null], [min |-> 0, max |-> 2000] }
FilterSampling ==
    { [days |-> 30, size |-> 12, shorts |-> FALSE],
      [days |-> 0,  size |-> 12, shorts |-> TRUE],
      [days |-> 30, size |-> 1,  shorts |-> TRUE],
      [days |-> 0,  size |-> 0,  shorts |-> TRUE],
      [days |-> 0,  size |-> 1,  shorts |-> FALSE] }

FilterInputs ==
    { [DefaultInput EXCEPT !.minSubscribers = s, !.excludeKeywords = x,
                           !.includeKeywords = k,
                           !.avgViewsMin = b.min, !.avgViewsMax = b.max,
                           !.recentVideoWithinDays = t.days, !.sampleSize = t.size,
                           !.allowShorts = t.shorts] :
        s \in {0, 1000, 6000}, x \in FilterExcludeKeywords, k \in FilterIncludeKeywords,
        b \in FilterViewBounds, t \in FilterSampling }

InitFilter ==
    /\ input \in FilterInputs
    /\ pc = "evaluate"
    /\ candidateChannelIds = <<IdA>>
    /\ seedIdx = 1 /\ queryIdx = 1
    /\ channelIdsArray = <<IdA>> /\ idx = 1 /\ processed = {IdA} /\ results = <<>>
    /\ dataset = <<>> /\ output = NoOutput
    /\ ch \in FilterChannelPool
    /\ ids = <<>> /\ pageToken = None /\ pageSeen = FALSE
    /\ videoIds = <<>> /\ all \in FilterSamples /\ chunkI = 0 /\ derived = NoDerived
    /\ outcome = "none" /\ failed = FALSE
    /\ call = IdleCall /\ obs = NoObs /\ paced = TRUE

NextFilter == Evaluate

SpecFilter == InitFilter /\ [][NextFilter]_vars

\* ================================================================
\* Properties
\* ================================================================
keptRecords == Range(results) \cup Range(dataset) \cup Range(output.results)

\* C1: the candidates handed to evaluation number at most max(maxChannels, 0),
\* and results (hence the summary) never holds more than maxChannels records,
\* none at all when maxChannels is 0.
C1_CandidatesAndResultsCapped ==
    /\ Len(channelIdsArray) <= (IF input.maxChannels > 0 THEN input.maxChannels ELSE 0)
    /\ Len(results) <= input.maxChannels
    /\ Len(output.results) <= input.maxChannels
    /\ (input.maxChannels = 0 => results = <<>> /\ dataset = <<>>)

\* more candidates were collected than maxChannels allows, and the run ended
\* with results filled to the cap
C1_Witness ==
    /\ pc = "done"
    /\ input.maxChannels > 0
    /\ Len(candidateChannelIds) > input.maxChannels
    /\ Len(results) = input.maxChannels

\* C2: no channelId occurs in two records of results, nor of the run summary.
C2_NoDuplicateChannel ==
    /\ \A i, j \in 1..Len(results) :
          i # j => results[i].channelId # results[j].channelId
    /\ \A i, j \in 1..Len(output.results) :
          i # j => output.results[i].channelId # output.results[j].channelId

\* a seed list that names one channel twice, and a summary with two records
C2_Witness ==
    /\ pc = "done"
    /\ Len(output.results) = 2
    /\ Len(input.seedChannels) = 3
    /\ input.seedChannels[1] = input.seedChannels[3]

\* C3 (as claimed): a call whose every attempt, up to the retry ceiling, was
\* answered 403 or 429 ends by raising an error that carries the last message;
\* it does not return a value.
C3_ExhaustionRaises ==
    ( /\ pc = "request" /\ call.state = "done"
      /\ Len(obs.log) = maxRetries + 1
      /\ \A i \in 1..Len(obs.log) : obs.log[i].kind = "status" /\ obs.log[i].status \in {403, 429} )
    => /\ call.result.kind = "throw"
       /\ call.result.msg = msgOf(obs.log[Len(obs.log)])

\* C4: rate-limit responses followed by a successful one within the retry
\* ceiling: the call returns that response's body and raises nothing.
C4_SuccessAfterRateLimit ==
    ( /\ pc = "request" /\ call.state = "done"
      /\ Len(obs.log) >= 2
      /\ obs.log[Len(obs.log)].kind = "ok"
      /\ \A i \in 1..(Len(obs.log) - 1) :
            obs.log[i].kind = "status" /\ obs.log[i].status \in {403, 429} )
    => /\ call.result.kind = "json"
       /\ call.result.body = obs.log[Len(obs.log)].body

\* three rate-limit responses, then a success with items, on the last attempt
C4_Witness ==
    /\ pc = "request" /\ call.state = "done"
    /\ Len(obs.log) = maxRetries + 1
    /\ obs.log[Len(obs.log)].kind = "ok"
    /\ obs.log[Len(obs.log)].body.items # <<>>
    /\ \A i \in 1..maxRetries : obs.log[i].kind = "status" /\ obs.log[i].status = 429

\* the request of the operation in progress has ended without a response body
\* (its retries are exhausted)
Exhausted == call.state = "done" /\ call.result.kind # "json"

\* C5 (as claimed): retries exhausted inside an API client operation make the
\* operation fail to its immediate caller: the query loop, which catches
\* nothing, would end the run, and the candidate loop would end the candidate
\* in its catch.
C5_ExhaustionFailsTheOperation ==
    [][ (Exhausted /\ pc \in {"query_search", "channels", "playlist", "videos"})
        => (pc' = "aborted" \/ outcome' = "error") ]_vars

\* C5 (amended): on exhaustion getChannelsDetails fails to the candidate's
\* catch; the search operation returns no IDs to its loop, which goes on;
\* getPlaylistVideoIds returns the IDs collected so far (the candidate is
\* skipped for having no videos when there are none, else their details are
\* requested); getVideosDetails returns the details collected so far (none
\* within one chunk, so the candidate is skipped for having no video details).
C5_OnlyChannelDetailsFails ==
    [][ Exhausted =>
         /\ pc = "channels" => outcome' = "error"
         /\ pc = "seed_search" =>
               pc' = "seeds" /\ seedIdx' = seedIdx + 1
               /\ candidateChannelIds' = candidateChannelIds
         /\ pc = "query_search" =>
               pc' = "queries" /\ queryIdx' = queryIdx + 1
               /\ candidateChannelIds' = candidateChannelIds
         /\ (pc = "playlist" /\ ids = <<>>) => outcome' = "no_videos"
         /\ (pc = "playlist" /\ ids # <<>>) => pc' = "videos" /\ videoIds' = ids
         /\ (pc = "videos" /\ all = <<>>) => outcome' = "no_video_details" ]_vars

\* the second page request of a playlist is exhausted after IDs were collected
C5_Witness == Exhausted /\ pc = "playlist" /\ ids # <<>>

\* C6: getPlaylistVideoIds holds and returns at most limit IDs, and requests a
\* page only while it holds fewer than limit IDs and the last page received,
\* if any, carried a continuation token.
C6_PlaylistCapped ==
    /\ Len(ids) <= input.sampleSize
    /\ Len(videoIds) <= input.sampleSize
    /\ (pc = "playlist" /\ call.state = "fetch") =>
          /\ Len(ids) < input.sampleSize
          /\ pageSeen => (pageToken # None /\ pageToken # <<>>)

\* a later page arrives with more IDs than the limit leaves room for
C6_Witness ==
    /\ pc = "playlist" /\ call.state = "done" /\ call.result.kind = "json"
    /\ pageSeen /\ ids # <<>>
    /\ Len(ids) + Cardinality({i \in 1..Len(call.result.body.items) :
                                  call.result.body.items[i] # None}) > input.sampleSize

\* C7: a failure on one seed, query or candidate never ends the run: the run
\* is aborted only for a missing key, while it waits for an API operation the
\* request of that operation is in progress or has ended, and when the run is
\* done every seed and query was visited, every candidate was visited unless
\* results is full, and the summary is written.
C7_FailureAbandonsOnlyTheItem ==
    /\ pc = "aborted" => (input.apiKey.type # "string" \/ \A i \in 1..Len(input.apiKey.str) :
                                                            input.apiKey.str[i] = " ")
    /\ pc \in {"seed_search", "query_search", "channels", "playlist", "videos"}
          => call.state \in {"fetch", "done"}
    /\ pc = "done" =>
          /\ output.written
          /\ seedIdx = Len(input.seedChannels) + 1
          /\ queryIdx = Len(input.searchQueries) + 1
          /\ (idx = Len(channelIdsArray) + 1 \/ Len(results) >= input.maxChannels)
          /\ (Len(results) < input.maxChannels => processed = Range(channelIdsArray))

\* a run that met a failure, went on and saved a record, and wrote its summary
C7_Witness ==
    /\ pc = "done" /\ failed
    /\ output.written /\ Len(output.results) >= 1
    /\ Cardinality(processed) >= 2

\* C8: with apiKey absent, not a string, or blank, the run goes from its start
\* to the abort only: no request, no record in results or the sink, no summary.
C8_MissingKeyAborts ==
    (input.apiKey.type # "string" \/ \A i \in 1..Len(input.apiKey.str) : input.apiKey.str[i] = " ")
    => /\ pc \in {"start", "aborted"}
       /\ call = IdleCall
       /\ results = <<>> /\ dataset = <<>>
       /\ ~output.written

\* the run is aborted on a key made of blanks
C8_Witness ==
    /\ pc = "aborted"
    /\ input.apiKey.type = "string"
    /\ Len(input.apiKey.str) = 2

titleOf(v) == IF v.snippet THEN toLowerCase(v.title) ELSE <<>>

recordedShort(v) ==
    \/ (v.durationSeconds > 0 /\ v.durationSeconds < 60)
    \/ (v.title # None /\ includes(toLowerCase(v.title), Str_short))

\* C10: with allowShorts false every record kept has shortsRatio 0 and no
\* short video in its sample; with allowShorts true no candidate is skipped
\* for shorts.
C10_ShortsFilter ==
    /\ ~input.allowShorts =>
          \A rec \in keptRecords :
              /\ rec.shortsRatio.num = 0
              /\ \A i \in 1..Len(rec.sampleVideos) : ~recordedShort(rec.sampleVideos[i])
    /\ input.allowShorts => outcome # "shorts"

\* a candidate was skipped for a short in its sample
C10_Witness ==
    /\ ~input.allowShorts
    /\ outcome = "shorts"
    /\ pc = "loop"

\* C11: every record emitted has a known subscriberCount of at least
\* minSubscribers, or a null one with minSubscribers <= 0; a candidate whose
\* count is hidden or unknown while minSubscribers > 0, or known and below
\* minSubscribers, is not emitted.
C11_SubscriberFilter ==
    pc = "evaluated" =>
        /\ \A i \in 1..Len(results) :
              \/ /\ results[i].subscriberCount # Null
                 /\ results[i].subscriberCount >= input.minSubscribers
              \/ /\ results[i].subscriberCount = Null
                 /\ input.minSubscribers <= 0
        /\ ((ch.hiddenSubscriberCount \/ ch.subscriberCount = None)
              /\ input.minSubscribers > 0) => (results = <<>> /\ outcome # "saved")
        /\ (~ch.hiddenSubscriberCount /\ ch.subscriberCount # None
              /\ parseInt(ch.subscriberCount) < input.minSubscribers)
             => (results = <<>> /\ outcome # "saved")

\* a channel that hides its count is emitted, with a null count, under
\* minSubscribers = 0
C11_Witness ==
    /\ pc = "evaluated"
    /\ ch.hiddenSubscriberCount
    /\ input.minSubscribers = 0
    /\ Len(results) = 1 /\ results[1].subscriberCount = Null

\* some non-empty keyword of the list occurs, in any case, in one of the texts
keywordHit(keywords, texts) ==
    \E i \in 1..Len(keywords) : \E j \in 1..Len(texts) :
        /\ keywords[i] # <<>>
        /\ includes(toLowerCase(texts[j]), toLowerCase(keywords[i]))

\* C12: a candidate with a non-empty exclude keyword occurring, in any case,
\* in the text made of its channel title, channel description and the titles
\* and descriptions of its sample videos is not emitted, whatever its include
\* keywords match; and no emitted record has an exclude keyword in its
\* channelName, its description or the title of one of its sample videos.
C12_ExcludeKeywordSkips ==
    pc = "evaluated" =>
        /\ keywordHit(input.excludeKeywords,
                      <<combinedTextOf(ch, sampleVideosOf(input, all))>>)
              => (results = <<>> /\ outcome # "saved")
        /\ \A i \in 1..Len(results) :
              ~keywordHit(input.excludeKeywords,
                          <<results[i].channelName, results[i].description>> \o
                          [j \in 1..Len(results[i].sampleVideos) |->
                              OrEmpty(results[i].sampleVideos[j].title)])

\* the channel described as "about Guru" matches both include keywords and
\* is skipped for the exclude keyword "GURU"
C12_Witness ==
    /\ pc = "evaluated"
    /\ ch = ChannelGuru
    /\ Len(input.includeKeywords) = 2
    /\ \A i \in 1..2 :
          includes(combinedTextOf(ch, <<>>), toLowerCase(input.includeKeywords[i]))
    /\ outcome = "excluded"

\* the evaluation went as far as the include-keyword filter
reachedInclude == outcome \in {"not_included", "avg_views_low", "avg_views_high", "saved"}

\* C13 (as claimed): the include filter rejects exactly when includeKeywords
\* is non-empty and none of its keywords occurs, in any case, in the combined
\* text (the empty keyword occurs in every text).
C13_IncludeRejectsIffNoKeyword ==
    (pc = "evaluated" /\ reachedInclude) =>
        ( outcome = "not_included" <=>
            /\ Len(input.includeKeywords) > 0
            /\ ~\E i \in 1..Len(input.includeKeywords) :
                   includes(combinedTextOf(ch, derived.sample),
                            toLowerCase(input.includeKeywords[i])) )

\* C13 (amended): the include filter rejects exactly when includeKeywords is
\* non-empty and none of its non-empty keywords occurs, in any case, in the
\* combined text, so a list of empty keywords only rejects every candidate;
\* with includeKeywords = [] it never rejects.
C13_IncludeRejectsIffNoNonEmptyKeyword ==
    (pc = "evaluated" /\ reachedInclude) =>
        /\ outcome = "not_included" <=>
              /\ Len(input.includeKeywords) > 0
              /\ ~keywordHit(input.includeKeywords, <<combinedTextOf(ch, derived.sample)>>)
        /\ input.includeKeywords = <<>> => outcome # "not_included"

\* a candidate is rejected under includeKeywords = [""]
C13_Witness ==
    /\ pc = "evaluated"
    /\ input.includeKeywords = << <<>> >>
    /\ outcome = "not_included"

\* the evaluation went as far as the average-views filter
reachedAvgViews == outcome \in {"avg_views_low", "avg_views_high", "saved"}

\* C14: every record emitted has avgViewsMin <= avgViews, and avgViews <=
\* avgViewsMax when avgViewsMax is set; a candidate that came through every
\* earlier filter with its avgViews inside these bounds is emitted.
C14_AvgViewsBounds ==
    pc = "evaluated" =>
        /\ \A i \in 1..Len(results) :
              /\ input.avgViewsMin <= results[i].avgViews
              /\ input.avgViewsMax # Null => results[i].avgViews <= input.avgViewsMax
        /\ ( /\ reachedAvgViews
             /\ input.avgViewsMin <= derived.avgViews
             /\ (input.avgViewsMax = Null \/ derived.avgViews <= input.avgViewsMax) )
           => /\ outcome = "saved"
              /\ Len(results) = 1
              /\ results[1].avgViews = derived.avgViews

\* a sample whose avgViews is exactly the configured avgViewsMax is emitted
C14_Witness ==
    /\ pc = "evaluated"
    /\ input.avgViewsMax # Null
    /\ Len(results) = 1
    /\ results[1].avgViews = input.avgViewsMax

\* the metrics of the sample were computed (the channel came through its
\* checks and nothing was thrown)
metricsKnown == pc = "evaluated" /\ derived.hasRecentWithin # "none"

\* the view count the claims give a video: 0 when it has none
claimedViews(v) == IF v.viewCount = None THEN 0 ELSE parseInt(v.viewCount)
RECURSIVE claimedViewSum(_)
claimedViewSum(vs) ==
    IF vs = <<>> THEN 0 ELSE claimedViews(Head(vs)) + claimedViewSum(Tail(vs))

\* C15: avgViews is the integer nearest to the mean of the view counts of the
\* sample videos used (a missing count is 0; a mean ending in .5 goes up), it
\* is 2000 for the counts 1000, 2000, 3000 and 0 for an empty sample, and a
\* record carries this value with the number of sample videos used.
C15_AvgViewsIsRoundedMean ==
    metricsKnown =>
        LET n == Len(derived.sample)
            total == claimedViewSum(derived.sample)
        IN /\ n = 0 => derived.avgViews = 0
           /\ n > 0 => /\ 2 * n * derived.avgViews <= 2 * total + n
                       /\ 2 * n * derived.avgViews > 2 * total - n
           /\ { claimedViews(derived.sample[i]) : i \in 1..n } = {1000, 2000, 3000}
                 => derived.avgViews = 2000
           /\ \A i \in 1..Len(results) :
                 /\ results[i].avgViews = derived.avgViews
                 /\ results[i].sampleSize = n
                 /\ [j \in 1..Len(results[i].sampleVideos) |->
                        results[i].sampleVideos[j].viewCount]
                    = [j \in 1..n |-> claimedViews(derived.sample[j])]

\* the sample with view counts 1000, 2000, 3000 is emitted with avgViews 2000
C15_Witness ==
    /\ pc = "evaluated"
    /\ Len(results) = 1
    /\ results[1].sampleSize = 3
    /\ { results[1].sampleVideos[j].viewCount : j \in 1..3 } = {1000, 2000, 3000}
    /\ results[1].avgViews = 2000

\* the video was published within the last recentVideoWithinDays days
publishedWithin(v, days) == v.publishedAt >= Now - days

\* C16: the recency filter rejects exactly when recentVideoWithinDays > 0 and
\* no sample video was published within that many days; with one such video
\* among those fetched the candidate is not rejected by it, and with
\* recentVideoWithinDays = 0 no sample, the empty one included, is rejected.
C16_RecencyFilter ==
    metricsKnown =>
        /\ outcome = "not_recent" <=>
              /\ input.recentVideoWithinDays > 0
              /\ \A i \in 1..Len(derived.sample) :
                    ~publishedWithin(derived.sample[i], input.recentVideoWithinDays)
        /\ ( /\ input.sampleSize >= 1
             /\ \E i \in 1..Len(all) : publishedWithin(all[i], input.recentVideoWithinDays) )
           => outcome # "not_recent"
        /\ input.recentVideoWithinDays = 0 => outcome # "not_recent"

\* one video of 10 days ago with one of 100 days ago, under a window of 30
\* days: the candidate is not rejected, and is emitted
C16_Witness ==
    /\ pc = "evaluated"
    /\ input.recentVideoWithinDays = 30
    /\ Len(derived.sample) = 2
    /\ derived.sample[1].publishedAt = Now - 10
    /\ derived.sample[2].publishedAt = Now - 100
    /\ outcome = "saved"

\* the IDs of found that are not in have, each once, in the order in which
\* they first occur in found
firstNew(have, found) ==
    LET keep == { i \in 1..Len(found) :
                     /\ found[i] \notin Range(have)
                     /\ \A j \in 1..(i - 1) : found[j] # found[i] }
    IN [k \in 1..Cardinality(keep) |->
           found[CHOOSE i \in keep : Cardinality({j \in keep : j <= i}) = k]]

\* the channel IDs that the seed or query now being finished has discovered
discoveredNow ==
    IF pc = "seeds" /\ seedIdx <= Len(input.seedChannels)
    THEN LET normalized == normalizeChannelIdOrUrl(input.seedChannels[seedIdx])
         IN IF normalized # None /\ IsChannelId(normalized) THEN <<normalized>> ELSE <<>>
    ELSE IF pc \in {"seed_search", "query_search"} /\ call.state = "done"
    THEN discoverOut(call.result)
    ELSE <<>>

\* C17: the candidates are the discovered IDs in discovery order without
\* repetition: seeds are taken in seed order, queries in query order and only
\* after the last seed, what a seed or query discovers is put behind the
\* candidates already there, each new ID once and at its first occurrence;
\* truncation keeps the first maxChannels candidates, and nothing changes
\* them afterwards.
C17_DiscoveryOrder ==
    [][ /\ candidateChannelIds' =
              candidateChannelIds \o
              firstNew(candidateChannelIds,
                       IF seedIdx' # seedIdx \/ queryIdx' # queryIdx
                       THEN discoveredNow ELSE <<>>)
        /\ seedIdx' \in {seedIdx, seedIdx + 1}
        /\ queryIdx' \in {queryIdx, queryIdx + 1}
        /\ queryIdx' # queryIdx => seedIdx = Len(input.seedChannels) + 1
        /\ (pc = "truncate" /\ pc' # pc) =>
              /\ seedIdx = Len(input.seedChannels) + 1
              /\ queryIdx = Len(input.searchQueries) + 1
              /\ Len(channelIdsArray') =
                    (IF Len(candidateChannelIds) < input.maxChannels
                     THEN Len(candidateChannelIds) ELSE input.maxChannels)
              /\ \A i \in 1..Len(channelIdsArray') :
                    channelIdsArray'[i] = candidateChannelIds[i]
        /\ pc # "truncate" => channelIdsArray' = channelIdsArray
      ]_vars

\* two seeds gave B then A, a query then gave C, and maxChannels = 2 kept B, A
C17_Witness ==
    /\ pc = "loop"
    /\ Len(input.searchQueries) = 1
    /\ candidateChannelIds = <<IdB, IdA, IdC>>
    /\ channelIdsArray = <<IdB, IdA>>

\* the nine checks of the claims, numbered in their order, on channel item c
\* and video details vs, each stated on its own: TRUE where check k fails
failedCheck(k, cfg, c, vs) ==
    CASE k = 1 ->   \* country
            /\ cfg.country # <<>>
            /\ \/ c.country = None \/ c.country = <<>>
               \/ ~includes(toLowerCase(OrEmpty(c.country)), toLowerCase(cfg.country))
      [] k = 2 ->   \* subscribers
            \/ (subscriberCountOf(c) = Null /\ cfg.minSubscribers > 0)
            \/ (subscriberCountOf(c) # Null /\ subscriberCountOf(c) < cfg.minSubscribers)
      [] k = 3 ->   \* uploads reference
            c.uploads = None \/ c.uploads = <<>>
      [] k = 4 ->   \* sample fetch
            vs = <<>>
      [] k = 5 ->   \* recency
            /\ cfg.recentVideoWithinDays > 0
            /\ \A i \in 1..Len(sampleVideosOf(cfg, vs)) :
                  ~publishedWithin(sampleVideosOf(cfg, vs)[i], cfg.recentVideoWithinDays)
      [] k = 6 ->   \* shorts
            /\ ~cfg.allowShorts
            /\ \E i \in 1..Len(sampleVideosOf(cfg, vs)) : shortFlag(sampleVideosOf(cfg, vs)[i])
      [] k = 7 ->   \* exclude keywords
            keywordHit(cfg.excludeKeywords, <<combinedTextOf(c, sampleVideosOf(cfg, vs))>>)
      [] k = 8 ->   \* include keywords
            /\ Len(cfg.includeKeywords) > 0
            /\ ~keywordHit(cfg.includeKeywords, <<combinedTextOf(c, sampleVideosOf(cfg, vs))>>)
      [] k = 9 ->   \* average views
            \/ avgViewsOf(sampleVideosOf(cfg, vs)) < cfg.avgViewsMin
            \/ /\ cfg.avgViewsMax # Null
               /\ avgViewsOf(sampleVideosOf(cfg, vs)) > cfg.avgViewsMax

\* the number of the first failing check from check k on, 10 when none fails
RECURSIVE firstFailingFrom(_, _, _, _)
firstFailingFrom(k, cfg, c, vs) ==
    IF k > 9 THEN 10
    ELSE IF failedCheck(k, cfg, c, vs) THEN k
    ELSE firstFailingFrom(k + 1, cfg, c, vs)
firstFailing(cfg, c, vs) == firstFailingFrom(1, cfg, c, vs)

\* the check a skip reason belongs to; 0 for an outcome that is no skip
rankOf(how) ==
    CASE how \in {"country_mismatch", "country_missing"} -> 1
      [] how \in {"subscribers_low", "subscribers_hidden"} -> 2
      [] how = "no_uploads" -> 3
      [] how \in {"no_videos", "no_video_details"} -> 4
      [] how = "not_recent" -> 5
      [] how = "shorts" -> 6
      [] how = "excluded" -> 7
      [] how = "not_included" -> 8
      [] how \in {"avg_views_low", "avg_views_high"} -> 9
      [] OTHER -> 0

\* C18: a candidate is ended by the first failing check of the order country,
\* subscribers, uploads reference, sample fetch, recency, shorts, exclude
\* keywords, include keywords, average views, and its skip reason is that
\* check's, whatever later checks would fail too; a candidate rejected by one
\* of the first three is ended on the return of its channels request, and a
\* playlistItems or videos request is only ever made for a candidate whose
\* channel item came through these three.
C18_FirstFailingCheckDecides ==
    [][ /\ pc = "channels" => call.path = "channels"
        /\ (pc = "channels" /\ call.state = "done" /\ call.result.body.items # <<>>) =>
              LET k == firstFailing(input, call.result.body.items[1], <<>>) IN
              IF k <= 3
              THEN rankOf(outcome') = k /\ pc' = "loop" /\ call' = IdleCall
              ELSE pc' = "playlist" /\ call'.path = "playlistItems"
        /\ (rankOf(outcome') \in 1..3 /\ outcome' # outcome) => pc = "channels"
        /\ call'.path \in {"playlistItems", "videos"} =>
              \A k \in 1..3 : ~failedCheck(k, input, ch', <<>>)
        /\ (pc = "playlist" /\ pc' = "loop") =>
              rankOf(outcome') = 4 /\ firstFailing(input, ch, <<>>) = 4
        /\ (pc = "videos" /\ pc' # "videos" /\ outcome' # "error") =>
              (IF pc' = "push" THEN 10 ELSE rankOf(outcome'))
              = firstFailing(input, ch, all \o call.result.body.items)
      ]_vars

\* a candidate whose sample fails the recency check, and whose text and
\* average views fail the exclude, include and average-views checks as well,
\* was skipped for recency
C18_Witness ==
    /\ pc = "loop"
    /\ outcome = "not_recent"
    /\ input.excludeKeywords = <<Str_coach>>
    /\ input.includeKeywords = <<Str_zen>>
    /\ input.avgViewsMin = 5000

\* C19: one call makes at most maxRetries + 1 = 4 HTTP requests, rate-limit
\* and other failures counted together, goes on only after a failure, and
\* makes no request once a response was successful.
C19_AtMostFourRequests ==
    pc = "request" =>
        /\ Len(obs.log) <= maxRetries + 1
        /\ \A i \in 1..(Len(obs.log) - 1) : obs.log[i].kind # "ok"
        /\ (obs.log # <<>> /\ obs.log[Len(obs.log)].kind = "ok") => call.state = "done"
        /\ Len(obs.log) = maxRetries + 1 => call.state = "done"
        /\ call.state = "done" => obs.log # <<>>

\* a call has ended on its fourth request, after rate-limit responses and
\* other failures in turn
C19_Witness ==
    /\ pc = "request" /\ call.state = "done"
    /\ Len(obs.log) = maxRetries + 1
    /\ obs.log[1].status = 429 /\ obs.log[2].kind = "reject"
    /\ obs.log[3].status = 403 /\ obs.log[4].status = 500

\* C20 (as claimed): the sleeps of one call are 1000 ms before the first
\* retry, then 2000 ms, then 4000 ms, after a rate-limit response as after any
\* other failure, and there is no sleep after the last failed attempt: a call
\* sleeps at most maxRetries times, once after each failed attempt but the
\* last.
C20_BackoffFromOneSecond ==
    pc = "request" =>
        /\ \A i \in 1..Len(obs.waits) : obs.waits[i] = BackoffBaseMs * Pow2(i - 1)
        /\ Len(obs.waits) <= maxRetries
        /\ Len(obs.waits) =
              Cardinality({i \in 1..Len(obs.log) :
                              obs.log[i].kind # "ok" /\ i <= maxRetries})

\* C21: a record appended to results is offered to the sink by the very next
\* step of the run, with no request in between, and the sink takes records in
\* the order of results; the summary is written once, when the loop over the
\* candidates has ended, and holds the results sequence as it stands, with
\* collected equal to its length.
C21_StreamThenSummary ==
    [][ /\ results' # results =>
              /\ pc = "videos" /\ pc' = "push"
              /\ Len(results') = Len(results) + 1
              /\ SubSeq(results', 1, Len(results)) = results
              /\ call' = IdleCall
        /\ pc = "push" =>
              /\ call = IdleCall
              /\ pc' = "loop" /\ idx' = idx + 1
              /\ \/ dataset' = Append(dataset, results[Len(results)])
                 \/ dataset' = dataset /\ outcome' = "push_failed"
        /\ dataset' # dataset => pc = "push"
        /\ output' # output =>
              /\ pc = "summary" /\ pc' = "done"
              /\ ~output.written /\ output'.written
              /\ idx > Len(channelIdsArray) \/ Len(results) >= input.maxChannels
              /\ output'.results = results
              /\ output'.collected = Len(results)
        /\ pc = "done" => output.written /\ output.results = results
        /\ pc = "summary" => (call = IdleCall /\ pc' = "done" /\ output'.written)
      ]_vars

\* two candidates passed, each record went to the sink before the next
\* candidate was taken up, and the summary holds both
C21_Witness ==
    /\ pc = "done"
    /\ Len(results) = 2
    /\ dataset = results
    /\ output.collected = 2 /\ output.results = results

\* the records of seq that are not in the sink
notInSink(seq) == { i \in 1..Len(seq) : seq[i] \notin Range(dataset) }

\* C22: when the sink write of a record fails, the record stays in results,
\* the candidate ends with a failure that is caught for this candidate alone,
\* and the loop moves on to the next candidate; such a record counts toward
\* maxChannels and is in the summary, whose collected counts it.
C22_SinkFailureKeepsRecord ==
    [][ /\ (pc = "push" /\ dataset' = dataset) =>
              /\ results' = results
              /\ outcome' = "push_failed" /\ failed'
              /\ pc' = "loop" /\ idx' = idx + 1
        /\ (pc = "loop" /\ Len(results) >= input.maxChannels) => pc' = "summary"
        /\ Len(dataset) <= Len(results) /\ Len(results) <= input.maxChannels
        /\ Range(dataset) \subseteq Range(results)
        /\ pc = "done" =>
              /\ output.results = results
              /\ output.collected = Len(dataset) + Cardinality(notInSink(results))
      ]_vars

\* the sink refused the first record and took the second: the summary holds
\* both
C22_Witness ==
    /\ pc = "done" /\ failed
    /\ Len(output.results) = 2
    /\ Len(dataset) = 1
    /\ dataset[1] = output.results[2]

\* C23 (as claimed): whenever an HTTP request is about to be made, a pacing
\* or backoff sleep has been made since the request before it, also when that
\* request was the last failed attempt of an exhausted call and when the
\* candidate was skipped or abandoned in between.
C23_RequestsPaced == call.state = "fetch" => paced

\* C24 (as claimed): a run that has passed the credential check, and whose
\* requests and sink writes all return, ends with its summary written,
\* whatever the remote API answers.
C24_RunTerminates == (pc = "seeds") ~> (pc = "done" /\ output.written)

====
